---- MODULE Spec2Model ----
(***************************************************************************)
(* Sh1ffy: a VS Code extension with two managers.                          *)
(*   - the workbench font manager edits workbench.html (a <style> block)   *)
(*     and the setting sh1ffy.workbenchFont;                               *)
(*   - the theme manager copies theme files into themes/ and regenerates   *)
(*     the Sh1ffy-managed entries of package.json contributes.themes.      *)
(*                                                                         *)
(* Strings are modelled as sequences of tokens.  A token is either one of  *)
(* the substrings the code searches for ("</head>", the opening style tag, *)
(* "</style>", a double quote, ...) or an opaque piece of text.            *)
(***************************************************************************)
EXTENDS Integers, Sequences, FiniteSets, TLC

(* ----------------------------------------------------------------------- *)
(*                               Bounds                                    *)
(* ----------------------------------------------------------------------- *)

\* Longest workbench.html (in tokens) the model lets a handler write.
MaxHtmlLen == 14

\* Most handler invocations that may be suspended at a dialog at once.
MaxPending == 2

\* Most files selected in one Import Theme(s) dialog.
MaxUris == 2

\* Longest text (in characters) handed to stripJsonComments.
MaxInputLen == 5

(* ----------------------------------------------------------------------- *)
(*                          Generic string helpers                         *)
(* ----------------------------------------------------------------------- *)

\* String.prototype.indexOf on tokens: the first position (1-based) of tok,
\* or 0 where JavaScript answers -1.
IndexOf(s, tok) ==
  IF \E i \in 1..Len(s) : s[i] = tok
  THEN CHOOSE i \in 1..Len(s) : s[i] = tok /\ \A j \in 1..(i - 1) : s[j] # tok
  ELSE 0

\* String.prototype.includes on tokens.
Includes(s, tok) == \E i \in 1..Len(s) : s[i] = tok

\* Number of occurrences of tok in s.
Count(s, tok) == Cardinality({i \in 1..Len(s) : s[i] = tok})

\* String.prototype.slice(from) / slice(0, to) on 1-based positions.
SliceFrom(s, i) == SubSeq(s, i, Len(s))
SliceTo(s, i) == SubSeq(s, 1, i)

\* String.prototype.trim: " " is the only whitespace token of the model.
RECURSIVE TrimStart(_)
TrimStart(s) ==
  IF s # <<>> /\ Head(s) = " " THEN TrimStart(Tail(s)) ELSE s

RECURSIVE TrimEnd(_)
TrimEnd(s) ==
  IF s # <<>> /\ s[Len(s)] = " " THEN TrimEnd(SubSeq(s, 1, Len(s) - 1)) ELSE s

Trim(s) == TrimEnd(TrimStart(s))

(* ----------------------------------------------------------------------- *)
(*                     Font manager: constants and helpers                 *)
(* ----------------------------------------------------------------------- *)

STYLE_ID == "sh1ffy-tweaks"

STYLE_TAG_OPEN == "<style id=\"sh1ffy-tweaks\">"

STYLE_TAG_CLOSE == "</style>"

HEAD_CLOSE == "</head>"

NL == "\n"

DQ == "\""

BACKSLASH == "\\"

\* The CSS text of getStyleMarkup before and after the font name, each one
\* opaque token (neither contains a tag the code searches for).
CssBeforeFont == "\n*:not(...) { font-family: \""
CssAfterFont == "\";\n}\n"

\* The value of a setting that is not set (undefined).  The handlers test
\* it with !font, which is also true of the empty string.
Undefined == <<>>

\* What the user may type into the input box of Set WorkBench Font.
InputBoxValues ==
  { <<"f">>, <<" ", "f", " ">>, <<" ">>, <<"f", DQ>>, <<STYLE_TAG_CLOSE>> }

\* The font names that can end up configured.
Fonts == { Trim(v) : v \in InputBoxValues } \ { <<>> }

\* Contents workbench.html may have before Sh1ffy first touches it.
OriginalHtmls ==
  { <<"<html>">>, <<"<html>", HEAD_CLOSE, "<body>">>,
    <<HEAD_CLOSE, HEAD_CLOSE>> }

\* fontFamily.replace(/"/g, '\\"')
RECURSIVE EscapeQuotes(_)
EscapeQuotes(s) ==
  IF s = <<>> THEN <<>>
  ELSE IF Head(s) = DQ THEN <<BACKSLASH, DQ>> \o EscapeQuotes(Tail(s))
  ELSE <<Head(s)>> \o EscapeQuotes(Tail(s))

getStyleMarkup(fontFamily) ==
  <<STYLE_TAG_OPEN, CssBeforeFont>> \o EscapeQuotes(fontFamily)
    \o <<CssAfterFont, STYLE_TAG_CLOSE>>

\* A faulty injectStyle that returns the text as it was.
injectStyleNowhere(h, styleMarkup) == h

\* A faulty injectStyle that always appends the block at the end.
injectStyleAtEnd(h, styleMarkup) == h \o <<NL>> \o styleMarkup \o <<NL>>

injectStyle(h, styleMarkup) ==
  LET headCloseIndex == IndexOf(h, HEAD_CLOSE) IN
  IF headCloseIndex = 0
  THEN h \o <<NL>> \o styleMarkup \o <<NL>>
  ELSE SliceTo(h, headCloseIndex - 1) \o styleMarkup \o <<NL>>
         \o SliceFrom(h, headCloseIndex)

\* A faulty removeStyle that removes nothing.
removeStyleKeeping(h) == h

\* html.replace(/<style\s+id="sh1ffy-tweaks"[^>]*>[\s\S]*?<\/style>/m, ""):
\* the leftmost opening tag that has a "</style>" after it, up to the first
\* such "</style>", is removed; without a match the text is unchanged.
removeStyle(h) ==
  LET starts == { i \in 1..Len(h) :
                    /\ h[i] = STYLE_TAG_OPEN
                    /\ \E j \in (i + 1)..Len(h) : h[j] = STYLE_TAG_CLOSE }
  IN IF starts = {} THEN h
     ELSE LET i == CHOOSE x \in starts : \A y \in starts : x <= y
              j == CHOOSE x \in (i + 1)..Len(h) :
                     /\ h[x] = STYLE_TAG_CLOSE
                     /\ \A y \in (i + 1)..(x - 1) : h[y] # STYLE_TAG_CLOSE
          IN SliceTo(h, i - 1) \o SliceFrom(h, j + 1)

(* ----------------------------------------------------------------------- *)
(*                                 State                                   *)
(* ----------------------------------------------------------------------- *)

VARIABLES
  html,         \* content of workbench.html
  htmlAccess,   \* "rw", "ro" (reads succeed, writes throw) or "none" (reads throw)
  config,       \* the editor's global settings, by key
  pending,      \* how many handler invocations are suspended at each dialog
  last,         \* the last font handler body that ran, and what it found
  updatedKeys,  \* every settings key the extension has passed to update()
  written,      \* the file paths the last handler step wrote, created or deleted
  themesDirExists, \* whether <extension root>/themes exists
  themes,       \* the files of <extension root>/themes, by file name
  packageJson,  \* content of <extension root>/package.json
  backup,       \* content of <extension root>/package.json.sh1ffy.bak
  extAccess,    \* "rw" or "ro": whether the extension folder can be written
  lastTheme,    \* the last theme handler that ran, and what it found
  jsonc,        \* the text handed to stripJsonComments, one token per character
  stripOut      \* [called, output]: what stripJsonComments returned for it

fontVars == <<html, htmlAccess, pending, last>>

themeVars == <<themesDirExists, themes, packageJson, backup, extAccess, lastTheme>>

sharedVars == <<config, updatedKeys, written>>

stripVars == <<jsonc, stripOut>>

vars == <<fontVars, themeVars, sharedVars, stripVars>>

\* The settings keys of the model: the two the extension names, and the
\* editor font setting it must leave alone.
WORKBENCH_FONT_KEY == "sh1ffy.workbenchFont"
COLOR_THEME_KEY == "workbench.colorTheme"
EDITOR_FONT_KEY == "editor.fontFamily"
ConfigKeys == { WORKBENCH_FONT_KEY, COLOR_THEME_KEY, EDITOR_FONT_KEY }

\* File paths are sequences of path segments.
WORKBENCH_HTML == <<"workbench.html">>

\* The dialogs a font handler can be suspended at.
\*   set_input         handleSetCustomFont, at showInputBox
\*   set_msg_style     handleSetCustomFont, at the "Reload with new font" message
\*   set_msg_nostyle   handleSetCustomFont, at the "Enable and reload" message
\*   enable_warn       handleEnableCustomFont, at the "Set font" warning
\*   reset_confirm     handleResetToDefaults, at the modal confirmation
\* A handler suspended at a message it only returns from (or reloads the
\* window from, showReloadNotification) changes no state any more and is
\* not kept.
Dialogs ==
  { "set_input", "set_msg_style", "set_msg_nostyle", "enable_warn",
    "reset_confirm" }

RECURSIVE SumOver(_, _)
SumOver(f, S) ==
  IF S = {} THEN 0
  ELSE LET x == CHOOSE y \in S : TRUE IN f[x] + SumOver(f, S \ {x})

Suspended(p) == SumOver(p, Dialogs)

Suspend(p, d) == [p EXCEPT ![d] = @ + 1]
Resume(p, d) == [p EXCEPT ![d] = @ - 1]

\* { modal: true }: while the confirmation of Reset is open, nothing else
\* in the window can be answered or started.
ModalOpen == pending["reset_confirm"] > 0

\* A menu entry can be picked when no modal dialog is open (and the model
\* has room for one more suspended handler).
CanStart == ~ModalOpen /\ Suspended(pending) < MaxPending

getWorkbenchFont == config[WORKBENCH_FONT_KEY]

\* configuration.update(key, value, ConfigurationTarget.Global)
ConfigUpdate(key, value) ==
  /\ config' = [config EXCEPT ![key] = value]
  /\ updatedKeys' = updatedKeys \cup { key }

\* A faulty setWorkbenchFont that writes the editor font setting.
setEditorFont(font) == ConfigUpdate(EDITOR_FONT_KEY, font)

setWorkbenchFont(font) == ConfigUpdate(WORKBENCH_FONT_KEY, font)

\* A faulty hasStyle test that never finds the block.
HasStyleNever(h) == FALSE

\* html.includes(STYLE_TAG_OPEN)
HasStyle(h) == Includes(h, STYLE_TAG_OPEN)

\* What a handler body records about its run.
Ran(op, wrote, shown) ==
  [ op |-> op, pre |-> html, preFont |-> getWorkbenchFont,
    wrote |-> wrote, shown |-> shown ]

NoRun ==
  [ op |-> "none", pre |-> <<>>, preFont |-> Undefined,
    wrote |-> FALSE, shown |-> "none" ]

FontInit ==
  /\ html \in OriginalHtmls
  /\ htmlAccess \in { "rw", "ro", "none" }
  /\ pending = [ d \in Dialogs |-> 0 ]
  /\ last = NoRun

(* ----------------------------------------------------------------------- *)
(*                    Theme manager: constants and data                    *)
(* ----------------------------------------------------------------------- *)

\* The separator " • " of the label prefix, one token.
BULLET == " (U+2022) "

\* "sh1ffy • "
THEME_LABEL_PREFIX == <<"sh1ffy", BULLET>>

THEMES_DIR_RELATIVE == "themes"

SH1FFY_THEME_TAG == "sh1ffy-managed"

PACKAGE_JSON == <<"package.json">>

PACKAGE_JSON_BACKUP == <<"package.json.sh1ffy.bak">>

\* A file name is <<base, extension>>; the extension carries its dot.
\* path.extname(name).toLowerCase()
ExtLower(name) == IF name[2] = ".JSON" THEN ".json" ELSE name[2]

\* name.replace(/\.[^.]+$/, "")
BaseNameWithoutExt(name) == name[1]

\* name.endsWith(".json")
EndsWithJson(name) == name[2] = ".json"

\* path.join(THEMES_DIR_RELATIVE, name)
ThemePath(name) == <<THEMES_DIR_RELATIVE>> \o name

\* A JSON value read from a theme file, as far as the code looks at it:
\*   kind     "absent" (no such file), "invalid" (JSON.parse throws), "null",
\*            "scalar" (a number, string or boolean), "object"
\*   name     [is |-> "missing" | "number" | "string", s |-> tokens]
\*   type     [is |-> "missing" | "number" | "string", s |-> text]
\*   uiTheme  whether the object has a truthy uiTheme
MissingField == [is |-> "missing", s |-> <<>>]
NumberField == [is |-> "number", s |-> <<>>]
Str(s) == [is |-> "string", s |-> s]

NoFile ==
  [kind |-> "absent", name |-> MissingField, type |-> MissingField, uiTheme |-> FALSE]

InvalidJson ==
  [kind |-> "invalid", name |-> MissingField, type |-> MissingField, uiTheme |-> FALSE]

ThemeObject(name, type, uiTheme) ==
  [kind |-> "object", name |-> name, type |-> type, uiTheme |-> uiTheme]

\* The files the user can select in the open dialog, by file name: the JSON
\* value of the file after comment stripping.
\*   a.json    { "name": "X", "type": "light" }
\*   a.jsonc   { "name": " ", "type": 5 }
\*   b.json    { "name": "sh1ffy (U+2022) X", "type": "HC" }
\*   c.JSON    { "uiTheme": "vs" }
\*   e.jsonc   not JSON
SourceFiles ==
  [ n \in { <<"a", ".json">>, <<"a", ".jsonc">>, <<"b", ".json">>,
            <<"c", ".JSON">>, <<"e", ".jsonc">> } |->
      CASE n = <<"a", ".json">> ->
             ThemeObject(Str(<<"X">>), Str(<<"light">>), FALSE)
        [] n = <<"a", ".jsonc">> ->
             ThemeObject(Str(<<" ">>), NumberField, FALSE)
        [] n = <<"b", ".json">> ->
             ThemeObject(Str(THEME_LABEL_PREFIX \o <<"X">>), Str(<<"HC">>), FALSE)
        [] n = <<"c", ".JSON">> ->
             ThemeObject(MissingField, MissingField, TRUE)
        [] n = <<"e", ".jsonc">> -> InvalidJson ]

SourceNames == DOMAIN SourceFiles

\* The file names that can occur in themes/, in the order readdirSync lists
\* them.  <<"z", ".json">> is a file that is not valid JSON.
DirOrder ==
  << <<"a", ".json">>, <<"b", ".json">>, <<"c", ".JSON">>, <<"z", ".json">> >>

ThemeFileNames == { DirOrder[i] : i \in 1..Len(DirOrder) }

\* String.prototype.toLowerCase on one token ("X" and "HC" are the tokens
\* of the model with upper-case letters).
LowerToken(t) ==
  CASE t = "X" -> "x"
    [] t = "HC" -> "hc"
    [] OTHER -> t

\* Whether a token consists of characters outside [a-z0-9] only.
NonAlnum(t) == t \in { BULLET, " ", "-", "." }

RECURSIVE MapLower(_)
MapLower(s) ==
  IF s = <<>> THEN <<>> ELSE <<LowerToken(Head(s))>> \o MapLower(Tail(s))

\* .replace(/[^a-z0-9]+/g, "-")
RECURSIVE DashRuns(_)
DashRuns(s) ==
  IF s = <<>> THEN <<>>
  ELSE IF NonAlnum(Head(s))
  THEN IF Len(s) > 1 /\ NonAlnum(s[2])
       THEN DashRuns(Tail(s))
       ELSE <<"-">> \o DashRuns(Tail(s))
  ELSE <<Head(s)>> \o DashRuns(Tail(s))

\* .replace(/^-+|-+$/g, "") on a text whose runs of "-" are single
StripDashes(s) ==
  LET a == IF s # <<>> /\ Head(s) = "-" THEN Tail(s) ELSE s
  IN IF a # <<>> /\ a[Len(a)] = "-" THEN SubSeq(a, 1, Len(a) - 1) ELSE a

toSafeId(input) == StripDashes(DashRuns(MapLower(input)))

StartsWith(s, prefix) ==
  Len(s) >= Len(prefix) /\ SubSeq(s, 1, Len(prefix)) = prefix

\* typeof v.name === "string" && v.name.trim().length > 0
HasName(v) == v.name.is = "string" /\ Trim(v.name.s) # <<>>

\* A faulty normalisation that puts the prefix in front of every name.
normalizeAlwaysPrefixing(themeObject, fileName) ==
  [ kind |-> "object",
    name |-> Str(THEME_LABEL_PREFIX \o
                   (IF HasName(themeObject) THEN themeObject.name.s
                    ELSE <<BaseNameWithoutExt(fileName)>>)),
    type |-> IF themeObject.type.is = "missing" /\ ~themeObject.uiTheme
             THEN Str(<<"dark">>)
             ELSE themeObject.type,
    uiTheme |-> themeObject.uiTheme ]

normalizeThemeObject(themeObject, fileName) ==
  LET baseNameFromFile == <<BaseNameWithoutExt(fileName)>>
      originalName == IF HasName(themeObject) THEN themeObject.name.s
                      ELSE baseNameFromFile
      prefixedName == IF StartsWith(originalName, THEME_LABEL_PREFIX)
                      THEN originalName
                      ELSE THEME_LABEL_PREFIX \o originalName
  IN [ kind |-> "object",
       name |-> Str(prefixedName),
       type |-> IF themeObject.type.is = "missing" /\ ~themeObject.uiTheme
                THEN Str(<<"dark">>)
                ELSE themeObject.type,
       uiTheme |-> themeObject.uiTheme ]

(* ----------------------------------------------------------------------- *)
(*                          Font manager: handlers                         *)
(* ----------------------------------------------------------------------- *)

Record(r) == last' = r

\* saveWorkbenchHtml(newHtml), reached with the file writable.
saveWorkbenchHtml(newHtml) ==
  /\ Len(newHtml) <= MaxHtmlLen
  /\ html' = newHtml
  /\ written' = { WORKBENCH_HTML }

\* handleEnableCustomFont, entered with p handlers suspended elsewhere.
handleEnableCustomFont(p) ==
  LET font == getWorkbenchFont IN
  IF font = Undefined
  THEN /\ pending' = Suspend(p, "enable_warn")
       /\ Record(Ran("enable", FALSE, "warning"))
       /\ html' = html /\ written' = {}
  ELSE IF htmlAccess = "none"
  THEN /\ pending' = p
       /\ Record(Ran("enable", FALSE, "error"))
       /\ html' = html /\ written' = {}
  ELSE IF HasStyle(html)
  THEN /\ pending' = p
       /\ Record(Ran("enable", FALSE, "info"))
       /\ html' = html /\ written' = {}
  ELSE IF htmlAccess # "rw"
  THEN /\ pending' = p
       /\ Record(Ran("enable", FALSE, "error"))
       /\ html' = html /\ written' = {}
  ELSE /\ saveWorkbenchHtml(injectStyle(html, getStyleMarkup(font)))
       /\ pending' = p
       /\ Record(Ran("enable", TRUE, "reload"))

\* handleReloadFontConfiguration, entered with p handlers suspended elsewhere.
handleReloadFontConfiguration(p) ==
  LET font == getWorkbenchFont
      stripped == IF HasStyle(html) THEN removeStyle(html) ELSE html
  IN
  IF font = Undefined
  THEN /\ pending' = p
       /\ Record(Ran("reload", FALSE, "warning"))
       /\ html' = html /\ written' = {}
  ELSE IF htmlAccess # "rw"
  THEN /\ pending' = p
       /\ Record(Ran("reload", FALSE, "error"))
       /\ html' = html /\ written' = {}
  ELSE /\ saveWorkbenchHtml(injectStyle(stripped, getStyleMarkup(font)))
       /\ pending' = p
       /\ Record(Ran("reload", TRUE, "reload"))

\* handleDisableCustomFont.
handleDisableCustomFont(p) ==
  IF htmlAccess = "none"
  THEN /\ pending' = p
       /\ Record(Ran("disable", FALSE, "error"))
       /\ html' = html /\ written' = {}
  ELSE IF ~HasStyle(html)
  THEN /\ pending' = p
       /\ Record(Ran("disable", FALSE, "info"))
       /\ html' = html /\ written' = {}
  ELSE IF htmlAccess # "rw"
  THEN /\ pending' = p
       /\ Record(Ran("disable", FALSE, "error"))
       /\ html' = html /\ written' = {}
  ELSE /\ saveWorkbenchHtml(removeStyle(html))
       /\ pending' = p
       /\ Record(Ran("disable", TRUE, "reload"))

\* Set WorkBench Font is picked: handleSetCustomFont up to showInputBox.
SetStart ==
  /\ CanStart
  /\ pending' = Suspend(pending, "set_input")
  /\ UNCHANGED <<html, htmlAccess, last, themeVars, stripVars, config, updatedKeys>>
  /\ written' = {}

\* handleSetCustomFont from the answer of the input box to its next dialog.
SetInputOf(values) ==
  /\ pending["set_input"] > 0
  /\ ~ModalOpen
  /\ \E cancelled \in BOOLEAN, value \in values :
       LET trimmed == Trim(value)
           p == Resume(pending, "set_input")
       IN
       IF cancelled \/ trimmed = <<>>
       THEN /\ pending' = p
            /\ UNCHANGED <<html, last, config, updatedKeys>> /\ written' = {}
       ELSE /\ setWorkbenchFont(trimmed)
            /\ Record(Ran("set", FALSE, "info"))
            /\ pending' =
                 IF htmlAccess = "none" THEN p
                 ELSE IF HasStyle(html) THEN Suspend(p, "set_msg_style")
                 ELSE Suspend(p, "set_msg_nostyle")
            /\ html' = html /\ written' = {}
  /\ UNCHANGED <<htmlAccess, themeVars, stripVars>>

SetInput == SetInputOf(InputBoxValues)

\* handleSetCustomFont from the answer to its message: with the button
\* pressed it calls Reload (hasStyle) or Enable (otherwise).
SetFollowUp ==
  /\ ~ModalOpen
  /\ \E d \in { "set_msg_style", "set_msg_nostyle" }, action \in BOOLEAN :
       /\ pending[d] > 0
       /\ IF ~action
          THEN /\ pending' = Resume(pending, d)
               /\ UNCHANGED <<html, last>> /\ written' = {}
          ELSE IF d = "set_msg_style"
          THEN handleReloadFontConfiguration(Resume(pending, d))
          ELSE handleEnableCustomFont(Resume(pending, d))
  /\ UNCHANGED <<htmlAccess, themeVars, stripVars, config, updatedKeys>>

\* Enable WorkBench Font is picked.
Enable ==
  /\ ~ModalOpen
  /\ getWorkbenchFont = Undefined => Suspended(pending) < MaxPending
  /\ handleEnableCustomFont(pending)
  /\ UNCHANGED <<htmlAccess, themeVars, stripVars, config, updatedKeys>>

\* The "No workbench font is configured" warning is answered: "Set font"
\* calls handleSetCustomFont.
EnableWarnAnswer ==
  /\ pending["enable_warn"] > 0
  /\ ~ModalOpen
  /\ \E setFont \in BOOLEAN :
       pending' = IF setFont
                  THEN Suspend(Resume(pending, "enable_warn"), "set_input")
                  ELSE Resume(pending, "enable_warn")
  /\ UNCHANGED <<html, htmlAccess, last, themeVars, stripVars, config, updatedKeys>>
  /\ written' = {}

\* Disable WorkBench Font is picked.
Disable ==
  /\ ~ModalOpen
  /\ handleDisableCustomFont(pending)
  /\ UNCHANGED <<htmlAccess, themeVars, stripVars, config, updatedKeys>>

\* Reload Font Configuration is picked.
Reload ==
  /\ ~ModalOpen
  /\ handleReloadFontConfiguration(pending)
  /\ UNCHANGED <<htmlAccess, themeVars, stripVars, config, updatedKeys>>

\* Reset to Defaults is picked: handleResetToDefaults up to the modal dialog.
ResetStart ==
  /\ CanStart
  /\ pending' = Suspend(pending, "reset_confirm")
  /\ UNCHANGED <<html, htmlAccess, last, themeVars, stripVars, config, updatedKeys>>
  /\ written' = {}

\* A faulty handleResetToDefaults that clears the setting before it looks
\* at the answer.
handleResetWithoutAsking(confirmed) ==
  /\ setWorkbenchFont(Undefined)
  /\ Record(Ran(IF confirmed THEN "reset" ELSE "resetDismissed", FALSE, "none"))
  /\ html' = html /\ written' = {}

\* handleResetToDefaults after the modal dialog, confirmed being whether
\* the answer was "Reset".
handleResetToDefaults(confirmed) ==
  IF ~confirmed
  THEN /\ Record(Ran("resetDismissed", FALSE, "none"))
       /\ UNCHANGED <<html, config, updatedKeys>> /\ written' = {}
  ELSE /\ setWorkbenchFont(Undefined)
       /\ IF htmlAccess # "none" /\ HasStyle(html) /\ htmlAccess = "rw"
          THEN /\ saveWorkbenchHtml(removeStyle(html))
               /\ Record(Ran("reset", TRUE, "reload"))
          ELSE /\ Record(Ran("reset", FALSE, "info"))
               /\ html' = html /\ written' = {}

\* handleResetToDefaults from the answer of the modal dialog to its end.
ResetAnswer ==
  /\ pending["reset_confirm"] > 0
  /\ pending' = Resume(pending, "reset_confirm")
  /\ \E confirmed \in BOOLEAN : handleResetToDefaults(confirmed)
  /\ UNCHANGED <<htmlAccess, themeVars, stripVars>>

FontNext ==
  \/ SetStart
  \/ SetInput
  \/ SetFollowUp
  \/ Enable
  \/ EnableWarnAnswer
  \/ Disable
  \/ Reload
  \/ ResetStart
  \/ ResetAnswer

(* ----------------------------------------------------------------------- *)
(*                   Theme manager: stripJsonComments                      *)
(* ----------------------------------------------------------------------- *)

\* The text of a theme file is a sequence of characters: the ones the
\* function tells apart, and "a" for any other character.
SQ == "'"

CR == "\r"

Chars == { "/", "*", DQ, SQ, BACKSLASH, NL, CR, "a" }

\* The texts stripJsonComments is applied to.
JsoncInputs == UNION { [1..n -> Chars] : n \in 0..MaxInputLen }

\* A faulty count that sees no backslash before a quote.
NoBackslashes(input, j) == 0

\* The while loop counting the backslashes that end at input[j].
RECURSIVE CountBackslashes(_, _)
CountBackslashes(input, j) ==
  IF j >= 1 /\ input[j] = BACKSLASH
  THEN 1 + CountBackslashes(input, j - 1)
  ELSE 0

\* The locals of stripJsonComments before its loop.
StripStart ==
  [ i |-> 1, output |-> <<>>, inString |-> FALSE, stringChar |-> "null",
    inLineComment |-> FALSE, inBlockComment |-> FALSE ]

\* One pass of the for loop of stripJsonComments, its i++ included, from
\* the locals st (i counts from 1).
StripStep(input, st) ==
  LET ch == input[st.i]
      next == IF st.i + 1 <= Len(input) THEN input[st.i + 1] ELSE ""
      backslashes == CountBackslashes(input, st.i - 1)
      quoted ==
        IF ch \in { DQ, SQ }
        THEN IF ~st.inString
             THEN [ st EXCEPT !.inString = TRUE, !.stringChar = ch ]
             ELSE IF st.stringChar = ch /\ backslashes % 2 = 0
             THEN [ st EXCEPT !.inString = FALSE, !.stringChar = "null" ]
             ELSE st
        ELSE st
  IN IF st.inLineComment
     THEN IF ch \in { NL, CR }
          THEN [ st EXCEPT !.inLineComment = FALSE,
                           !.output = Append(@, ch), !.i = @ + 1 ]
          ELSE [ st EXCEPT !.i = @ + 1 ]
     ELSE IF st.inBlockComment
     THEN IF ch = "*" /\ next = "/"
          THEN [ st EXCEPT !.inBlockComment = FALSE, !.i = @ + 2 ]
          ELSE [ st EXCEPT !.i = @ + 1 ]
     ELSE IF ~st.inString /\ ch = "/" /\ next = "/"
     THEN [ st EXCEPT !.inLineComment = TRUE, !.i = @ + 2 ]
     ELSE IF ~st.inString /\ ch = "/" /\ next = "*"
     THEN [ st EXCEPT !.inBlockComment = TRUE, !.i = @ + 2 ]
     ELSE [ quoted EXCEPT !.output = Append(@, ch), !.i = @ + 1 ]

RECURSIVE StripLoop(_, _)
StripLoop(input, st) ==
  IF st.i > Len(input) THEN st.output
  ELSE StripLoop(input, StripStep(input, st))

stripJsonComments(input) == StripLoop(input, StripStart)

\* A call of stripJsonComments on the text at hand.
Strip ==
  /\ ~stripOut.called
  /\ stripOut' = [ called |-> TRUE, output |-> stripJsonComments(jsonc) ]
  /\ UNCHANGED <<jsonc, fontVars, themeVars, sharedVars>>

StripNext ==
  \/ Strip

\* No text at hand: the runs of the handlers.
StripQuiet ==
  /\ jsonc = <<>>
  /\ stripOut = [ called |-> FALSE, output |-> <<>> ]

StripInit ==
  /\ jsonc \in JsoncInputs
  /\ stripOut = [ called |-> FALSE, output |-> <<>> ]

(* ----------------------------------------------------------------------- *)
(*                    Theme manager: disk scan and sync                    *)
(* ----------------------------------------------------------------------- *)

\* One element of contributes.themes: an object with the fields the code
\* writes (tag is its _sh1ffyTag, "" when it has none), or a JSON null.
Entry(id, label, uiTheme, path, tag) ==
  [ json |-> "object", id |-> id, label |-> label, uiTheme |-> uiTheme,
    path |-> path, tag |-> tag ]

NullEntry ==
  [ json |-> "null", id |-> <<>>, label |-> <<>>, uiTheme |-> "",
    path |-> <<>>, tag |-> "" ]

\* The switch on type.toLowerCase() of readImportedThemesFromDisk.
UiThemeOf(type) ==
  LET lowered == MapLower(type) IN
  CASE lowered \in { <<"light">>, <<"vs">> } -> "vs"
    [] lowered \in { <<"hc">>, <<"hc-black">>, <<"high-contrast">> } -> "hc-black"
    [] OTHER -> "vs-dark"

\* The body of the loop of readImportedThemesFromDisk for one file: the
\* entries it pushes (none when the try block throws).
ScanFile(fileName, obj) ==
  LET label == IF HasName(obj) THEN obj.name.s
               ELSE <<BaseNameWithoutExt(fileName)>>
      type == IF obj.type.is = "missing" THEN <<"dark">> ELSE obj.type.s
  IN IF obj.kind \in { "invalid", "null" } \/ obj.type.is = "number"
     THEN <<>>
     ELSE << [ id |-> <<"sh1ffy.">> \o toSafeId(label),
               label |-> label,
               uiTheme |-> UiThemeOf(type),
               path |-> ThemePath(fileName) ] >>

RECURSIVE ScanFiles(_, _)
ScanFiles(files, dir) ==
  IF files = <<>> THEN <<>>
  ELSE ScanFile(Head(files), dir[Head(files)]) \o ScanFiles(Tail(files), dir)

readImportedThemesFromDisk(dirExists, dir) ==
  IF ~dirExists THEN <<>>
  ELSE LET IsJsonFile(n) == dir[n].kind # "absent" /\ EndsWithJson(n)
       IN ScanFiles(SelectSeq(DirOrder, IsJsonFile), dir)

\* package.json:
\*   kind         "absent", "invalid" (JSON.parse throws) or "json"
\*   fmt          "original" (as shipped) or "stringify2" (JSON.stringify(pkg, null, 2))
\*   rest         every field other than contributes.themes
\*   contributes  "missing" or "object"
\*   themes       "missing", "notarray" or "array": contributes.themes
\*   entries      the elements of contributes.themes
Package(fmt, rest, contributes, themesKind, entries) ==
  [ kind |-> "json", fmt |-> fmt, rest |-> rest, contributes |-> contributes,
    themes |-> themesKind, entries |-> entries ]

NoPackage ==
  [ kind |-> "absent", fmt |-> "original", rest |-> "", contributes |-> "missing",
    themes |-> "missing", entries |-> <<>> ]

InvalidPackage ==
  [ kind |-> "invalid", fmt |-> "original", rest |-> "", contributes |-> "missing",
    themes |-> "missing", entries |-> <<>> ]

IsManaged(entry) == entry.json = "object" /\ entry.tag = SH1FFY_THEME_TAG

\* A faulty filter that keeps the tagged entries and drops the others.
KeptWhenTagged(entry) == entry.json # "null" /\ entry.tag = SH1FFY_THEME_TAG

\* entry => entry && entry._sh1ffyTag !== SH1FFY_THEME_TAG
KeptBySync(entry) == entry.json # "null" /\ entry.tag # SH1FFY_THEME_TAG

\* A faulty sync that appends the regenerated entries to the entries
\* package.json already has.
SyncedPackageAppending(pkg, themesOnDisk) ==
  Package("stringify2", pkg.rest, "object", "array",
          (IF pkg.contributes = "object" /\ pkg.themes = "array"
           THEN pkg.entries ELSE <<>>)
            \o [ i \in 1..Len(themesOnDisk) |->
                   Entry(themesOnDisk[i].id, themesOnDisk[i].label,
                         themesOnDisk[i].uiTheme, <<".">> \o themesOnDisk[i].path,
                         SH1FFY_THEME_TAG) ])

\* The package object syncPackageJsonThemes hands to writePackageJson.
SyncedPackage(pkg, themesOnDisk) ==
  LET existing == IF pkg.contributes = "object" /\ pkg.themes = "array"
                  THEN pkg.entries ELSE <<>>
      filtered == SelectSeq(existing, KeptBySync)
      sh1ffyEntries ==
        [ i \in 1..Len(themesOnDisk) |->
            Entry(themesOnDisk[i].id, themesOnDisk[i].label,
                  themesOnDisk[i].uiTheme, <<".">> \o themesOnDisk[i].path,
                  SH1FFY_THEME_TAG) ]
  IN Package("stringify2", pkg.rest, "object", "array", filtered \o sh1ffyEntries)

\* readPackageJson throws when the file is missing or is not JSON.
PackageReadable(pkg) == pkg.kind = "json"

\* A faulty writePackageJson that puts its backup next to the extension
\* folder.
writePackageJsonOutside(cur, bak, pkg) ==
  [ pkg |-> pkg,
    bak |-> bak,
    wrote |-> { PACKAGE_JSON, <<"..", "package.json.sh1ffy.bak">> } ]

\* A faulty writePackageJson that never makes the backup.
writePackageJsonNoBackup(cur, bak, pkg) ==
  [ pkg |-> pkg, bak |-> bak, wrote |-> { PACKAGE_JSON } ]

\* A faulty writePackageJson that renews the backup on every write.
writePackageJsonNewBackup(cur, bak, pkg) ==
  [ pkg |-> pkg, bak |-> cur, wrote |-> { PACKAGE_JSON, PACKAGE_JSON_BACKUP } ]

\* writePackageJson(pkg) on the files cur (package.json) and bak (the
\* backup): a first call copies package.json to the backup.
writePackageJson(cur, bak, pkg) ==
  [ pkg |-> pkg,
    bak |-> IF bak.kind = "absent" /\ cur.kind # "absent" THEN cur ELSE bak,
    wrote |-> { PACKAGE_JSON } \cup
              (IF bak.kind = "absent" /\ cur.kind # "absent"
               THEN { PACKAGE_JSON_BACKUP } ELSE {}) ]

\* syncPackageJsonThemes with themes/ as given: whether it threw, and the
\* package.json, backup and written paths it leaves.
syncPackageJsonThemes(dirExists, dir) ==
  IF ~PackageReadable(packageJson) \/ extAccess # "rw"
  THEN [ threw |-> TRUE, pkg |-> packageJson, bak |-> backup, wrote |-> {} ]
  ELSE LET w == writePackageJson(
                  packageJson, backup,
                  SyncedPackage(packageJson,
                                readImportedThemesFromDisk(dirExists, dir)))
       IN [ threw |-> FALSE, pkg |-> w.pkg, bak |-> w.bak, wrote |-> w.wrote ]

(* ----------------------------------------------------------------------- *)
(*                         Theme manager: handlers                         *)
(* ----------------------------------------------------------------------- *)

\* A theme handler is one step: the answers to its dialogs (the selection,
\* Overwrite/Skip, the confirmations, Apply now) are inputs of the step, and
\* no other handler runs while it waits for them.

EmptyDir == [ n \in ThemeFileNames |-> NoFile ]

\* What a theme handler records about its run; inputs is, for an Import,
\* what became of each selected file, in the order of the selection:
\* [source, outcome ("imported", "skipped" or "error"), asked].
ThemeRan(op, imported, errors, picked, threw, shown) ==
  [ op |-> op, imported |-> imported, errors |-> errors, picked |-> picked,
    threw |-> threw, shown |-> shown, inputs |-> <<>> ]

NoThemeRun ==
  [ op |-> "none", imported |-> <<>>, errors |-> <<>>, picked |-> {},
    threw |-> FALSE, shown |-> "none", inputs |-> <<>> ]

\* originalExt === ".json" ? originalFileName : `${baseNameWithoutExt}.json`
TargetFileName(originalFileName) ==
  IF ExtLower(originalFileName) = ".json" THEN originalFileName
  ELSE <<BaseNameWithoutExt(originalFileName), ".json">>

\* const label = normalized.name ?? baseNameWithoutExt
LabelOf(originalFileName) ==
  normalizeThemeObject(SourceFiles[originalFileName], originalFileName).name.s

\* existingThemes.find(t => t.label === label)
AlreadyExisting(existingThemes, label) ==
  \E i \in 1..Len(existingThemes) : existingThemes[i].label = label

\* The selections the open dialog can return: one to MaxUris distinct files.
UriSelections ==
  UNION { { u \in [1..k -> SourceNames] :
              \A i, j \in 1..k : i # j => u[i] # u[j] } : k \in 1..MaxUris }

\* What became of one selected file, and whether the Overwrite/Skip
\* question was asked for it.
Outcome(source, outcome, asked) ==
  [ source |-> source, outcome |-> outcome, asked |-> asked ]

\* The body of the for loop of handleImportThemes for uris[i], from the
\* loop state acc = [dir, imported, errors, inputs]; overwrite[i] is the
\* answer to the Overwrite/Skip question, should it be asked.
ImportOne(uris, i, overwrite, existingThemes, acc) ==
  LET originalFileName == uris[i]
      themeObject == SourceFiles[originalFileName]
      normalized == normalizeThemeObject(themeObject, originalFileName)
      targetFileName == TargetFileName(originalFileName)
      label == normalized.name.s
      alreadyExisting == AlreadyExisting(existingThemes, label)
  IN IF themeObject.kind # "object"
     THEN [ acc EXCEPT
              !.errors = Append(@, originalFileName),
              !.inputs = Append(@, Outcome(originalFileName, "error", FALSE)) ]
     ELSE IF alreadyExisting /\ ~overwrite[i]
     THEN [ acc EXCEPT
              !.inputs = Append(@, Outcome(originalFileName, "skipped", TRUE)) ]
     ELSE IF extAccess # "rw"
     THEN [ acc EXCEPT
              !.errors = Append(@, originalFileName),
              !.inputs = Append(@, Outcome(originalFileName, "error",
                                           alreadyExisting)) ]
     ELSE [ acc EXCEPT
              !.dir = [@ EXCEPT ![targetFileName] = normalized],
              !.imported = Append(@, [ label |-> label,
                                       path |-> ThemePath(targetFileName),
                                       id |-> toSafeId(label) ]),
              !.inputs = Append(@, Outcome(originalFileName, "imported",
                                           alreadyExisting)) ]

RECURSIVE ImportLoop(_, _, _, _, _)
ImportLoop(uris, i, overwrite, existingThemes, acc) ==
  IF i > Len(uris) THEN acc
  ELSE ImportLoop(uris, i + 1, overwrite, existingThemes,
                  ImportOne(uris, i, overwrite, existingThemes, acc))

setColorThemeById(themeLabel) == ConfigUpdate(COLOR_THEME_KEY, themeLabel)

WrittenPaths(imported) == { imported[i].path : i \in 1..Len(imported) }

\* handleImportThemes for a non-empty selection.  The "Reload Window"
\* answers change nothing in the model and are not drawn.
ImportOf(selections) ==
  /\ \E existingThemes \in { readImportedThemesFromDisk(TRUE, themes) } :
     \E uris \in selections :
     \E asked \in { { i \in 1..Len(uris) :
                        AlreadyExisting(existingThemes, LabelOf(uris[i])) } } :
     \E answers \in [asked -> BOOLEAN] :
     \E overwrite \in { [ i \in 1..Len(uris) |-> i \in asked /\ answers[i] ] } :
     \E acc \in { ImportLoop(uris, 1, overwrite, existingThemes,
                             [ dir |-> themes, imported |-> <<>>,
                               errors |-> <<>>, inputs |-> <<>> ]) } :
     \E sync \in { syncPackageJsonThemes(TRUE, acc.dir) } :
       IF ~themesDirExists /\ extAccess # "rw"
       THEN \* mkdirSync throws: the handler rejects
            /\ lastTheme' = ThemeRan("import", <<>>, <<>>, {}, TRUE, "none")
            /\ written' = {}
            /\ UNCHANGED <<themesDirExists, themes, packageJson, backup,
                           config, updatedKeys>>
       ELSE /\ themesDirExists' = TRUE
            /\ themes' = acc.dir
            /\ packageJson' = sync.pkg
            /\ backup' = sync.bak
            /\ written' =
                 (IF themesDirExists THEN {} ELSE { <<THEMES_DIR_RELATIVE>> })
                   \cup WrittenPaths(acc.imported) \cup sync.wrote
            /\ \E applyNow \in
                   IF ~sync.threw /\ Len(acc.imported) = 1
                   THEN BOOLEAN ELSE { FALSE } :
                 IF applyNow THEN setColorThemeById(acc.imported[1].label)
                 ELSE UNCHANGED <<config, updatedKeys>>
            /\ lastTheme' =
                 [ ThemeRan("import", acc.imported, acc.errors, {}, sync.threw,
                            IF sync.threw THEN "none"
                            ELSE IF acc.errors # <<>> THEN "warning"
                            ELSE IF acc.imported # <<>> THEN "info"
                            ELSE "none")
                     EXCEPT !.inputs = acc.inputs ]
  /\ UNCHANGED <<fontVars, stripVars, extAccess>>

Import == ImportOf(UriSelections)

\* A faulty path resolution that always lands on themes/b.json.
FileOfPathFixed(path) == <<"b", ".json">>

\* The file that path.join(extensionRoot, theme.path) names, for an entry
\* path "themes/<name>".
FileOfPath(path) == SubSeq(path, 2, Len(path))

\* handleRemoveThemes: picked is the set of selected themes (by their
\* path), confirmed the answer to the modal confirmation.
Remove ==
  /\ \E listed \in { readImportedThemesFromDisk(themesDirExists, themes) } :
     LET paths == { listed[i].path : i \in 1..Len(listed) }
     IN IF listed = <<>>
        THEN /\ lastTheme' = ThemeRan("remove", <<>>, <<>>, {}, FALSE, "info")
             /\ UNCHANGED <<themes, packageJson, backup>> /\ written' = {}
        ELSE \E picked \in SUBSET paths, confirmed \in BOOLEAN :
          IF picked = {} \/ ~confirmed
          THEN /\ lastTheme' =
                    ThemeRan("removeDismissed", <<>>, <<>>, picked, FALSE, "none")
               /\ UNCHANGED <<themes, packageJson, backup>> /\ written' = {}
          ELSE LET \* fs.existsSync(absolutePath), then fs.unlinkSync
                   deleted == IF extAccess = "rw"
                              THEN { n \in ThemeFileNames :
                                       /\ \E path \in picked : n = FileOfPath(path)
                                       /\ themes[n].kind # "absent" }
                              ELSE {}
                   dir == [ n \in ThemeFileNames |->
                              IF n \in deleted THEN NoFile ELSE themes[n] ]
               IN \E sync \in { syncPackageJsonThemes(themesDirExists, dir) } :
                  /\ themes' = dir
                  /\ packageJson' = sync.pkg
                  /\ backup' = sync.bak
                  /\ written' = { ThemePath(n) : n \in deleted } \cup sync.wrote
                  /\ lastTheme' =
                       ThemeRan("remove", <<>>, <<>>, picked, sync.threw,
                                IF sync.threw THEN "none" ELSE "reload")
  /\ UNCHANGED <<fontVars, stripVars, config, updatedKeys, themesDirExists, extAccess>>

\* handleRepairContributions: a throw of the sync is caught and reported.
Repair ==
  /\ \E sync \in { syncPackageJsonThemes(themesDirExists, themes) } :
        /\ packageJson' = sync.pkg
        /\ backup' = sync.bak
        /\ written' = sync.wrote
        /\ lastTheme' = ThemeRan("repair", <<>>, <<>>, {}, FALSE,
                                 IF sync.threw THEN "error" ELSE "reload")
  /\ UNCHANGED <<fontVars, stripVars, config, updatedKeys, themesDirExists, themes, extAccess>>

\* handleRestorePackageJsonBackup.
Restore ==
  /\ IF backup.kind = "absent"
     THEN /\ lastTheme' = ThemeRan("restore", <<>>, <<>>, {}, FALSE, "warning")
          /\ packageJson' = packageJson /\ written' = {}
     ELSE \E confirmed \in BOOLEAN :
       IF ~confirmed
       THEN /\ lastTheme' =
                 ThemeRan("restoreDismissed", <<>>, <<>>, {}, FALSE, "none")
            /\ packageJson' = packageJson /\ written' = {}
       ELSE IF extAccess # "rw"
       THEN /\ lastTheme' = ThemeRan("restore", <<>>, <<>>, {}, FALSE, "error")
            /\ packageJson' = packageJson /\ written' = {}
       ELSE /\ packageJson' = backup
            /\ written' = { PACKAGE_JSON }
            /\ lastTheme' = ThemeRan("restore", <<>>, <<>>, {}, FALSE, "reload")
  /\ UNCHANGED <<fontVars, stripVars, config, updatedKeys, themesDirExists, themes, backup,
                 extAccess>>

ThemeNext ==
  \/ Import
  \/ Remove
  \/ Repair
  \/ Restore

\* Theme contributions of the extension's own manifest that Sh1ffy does not
\* manage, and a managed one whose file is gone.
ForeignEntry1 ==
  Entry(<<"builtin-dark">>, <<"Builtin Dark">>, "vs-dark",
        <<".", "builtin", "dark.json">>, "")

ForeignEntry2 ==
  Entry(<<"builtin-light">>, <<"Builtin Light">>, "vs",
        <<".", "builtin", "light.json">>, "")

StaleEntry ==
  Entry(<<"sh1ffy.", "sh1ffy", "-", "gone">>, THEME_LABEL_PREFIX \o <<"gone">>,
        "vs-dark", <<".", THEMES_DIR_RELATIVE, "gone", ".json">>, SH1FFY_THEME_TAG)

\* The package.json contents the extension can be installed with: with
\* theme contributions of its own, without a contributes object, and with a
\* contributes.themes that is not an array.
InitialPackages ==
  { Package("original", "manifest", "object", "array",
            <<ForeignEntry1, StaleEntry, NullEntry, ForeignEntry2>>),
    Package("original", "manifest", "missing", "missing", <<>>),
    Package("original", "manifest", "object", "notarray", <<>>) }

\* The extension folder as an earlier session left it, a.json imported into
\* the first of the initial packages: themes/ and package.json after that
\* Import.
UsedDir ==
  [EmptyDir EXCEPT
     ![<<"z", ".json">>] = InvalidJson,
     ![<<"a", ".json">>] =
        normalizeThemeObject(SourceFiles[<<"a", ".json">>], <<"a", ".json">>)]

UsedPackage ==
  SyncedPackage(Package("original", "manifest", "object", "array",
                        <<ForeignEntry1, StaleEntry, NullEntry, ForeignEntry2>>),
                readImportedThemesFromDisk(TRUE, UsedDir))

\* At activation themes/ is missing, or holds a file that is not JSON; or
\* the folder was used by an earlier session and has become read-only since.
ThemeInit ==
  /\ \/ /\ packageJson \in InitialPackages
        /\ IF packageJson.themes = "array"
           THEN /\ themesDirExists = TRUE
                /\ themes = [EmptyDir EXCEPT ![<<"z", ".json">>] = InvalidJson]
           ELSE /\ themesDirExists = FALSE
                /\ themes = EmptyDir
        /\ backup = NoPackage
        /\ extAccess \in { "rw", "ro" }
     \/ /\ packageJson = UsedPackage
        /\ themesDirExists = TRUE
        /\ themes = UsedDir
        /\ backup = Package("original", "manifest", "object", "array",
                            <<ForeignEntry1, StaleEntry, NullEntry, ForeignEntry2>>)
        /\ extAccess = "ro"
  /\ lastTheme = NoThemeRun

\* The theme manager at rest, for the runs of the font manager alone.
ThemeQuiet ==
  /\ themesDirExists = FALSE
  /\ themes = EmptyDir
  /\ packageJson = Package("original", "manifest", "missing", "missing", <<>>)
  /\ backup = NoPackage
  /\ extAccess = "rw"
  /\ lastTheme = NoThemeRun

\* The font manager at rest, for the runs of the theme manager alone.
FontQuiet ==
  /\ html = <<"<html>", HEAD_CLOSE, "<body>">>
  /\ htmlAccess = "rw"
  /\ pending = [ d \in Dialogs |-> 0 ]
  /\ last = NoRun

SharedInit ==
  /\ config = [ k \in ConfigKeys |->
                  IF k = WORKBENCH_FONT_KEY THEN Undefined
                  ELSE IF k = EDITOR_FONT_KEY THEN <<"Consolas">>
                  ELSE <<"Default Dark+">> ]
  /\ updatedKeys = {}
  /\ written = {}

InitFont == FontInit /\ ThemeQuiet /\ SharedInit /\ StripQuiet

InitTheme == FontQuiet /\ ThemeInit /\ SharedInit /\ StripQuiet

\* Both managers at activation: workbench.html writable, the extension
\* folder writable, no themes/ folder yet.
Init == FontQuiet /\ ThemeQuiet /\ SharedInit /\ StripQuiet

\* stripJsonComments alone, on every text of the model.
InitStrip == FontQuiet /\ ThemeQuiet /\ SharedInit /\ StripInit

\* What the user enters when both managers are run in one window: the font
\* "f" in the input box, the file a.json in the open dialog.
OneFont == { <<"f">> }

OneFile == { << <<"a", ".json">> >> }

SetInputOne == SetInputOf(OneFont)

ImportOneFile == ImportOf(OneFile)

Next ==
  \/ SetStart
  \/ SetInputOne
  \/ SetFollowUp
  \/ Enable
  \/ EnableWarnAnswer
  \/ Disable
  \/ Reload
  \/ ResetStart
  \/ ResetAnswer
  \/ ImportOneFile
  \/ Remove
  \/ Repair
  \/ Restore

\* The font manager alone.
SpecFont == InitFont /\ [][FontNext]_vars

\* The theme manager alone.
SpecTheme == InitTheme /\ [][ThemeNext]_vars

\* stripJsonComments alone.
SpecStrip == InitStrip /\ [][StripNext]_vars

\* Both managers, their handlers interleaved.
Spec == Init /\ [][Next]_vars

(* ----------------------------------------------------------------------- *)
(*                         Font manager: properties                        *)
(* ----------------------------------------------------------------------- *)

\* The first Sh1ffy block of h is exactly the markup m.
FirstBlockIs(h, m) ==
  LET i == IndexOf(h, STYLE_TAG_OPEN) IN
  /\ i > 0
  /\ i + Len(m) - 1 <= Len(h)
  /\ SubSeq(h, i, i + Len(m) - 1) = m

IsLineBreaks(s) == \A x \in 1..Len(s) : s[x] = NL

\* h is orig with the block m inserted at position at (the number of tokens
\* of orig before it), set off from orig by line breaks only.
InsertedAt(h, orig, m, at) ==
  \E x \in 0..Len(h), y \in 0..Len(h) :
    /\ x <= y
    /\ SliceTo(h, x) = SliceTo(orig, at)
    /\ SliceFrom(h, y + 1) = SliceFrom(orig, at + 1)
    /\ \E i \in (x + 1)..(y + 1) :
         /\ i + Len(m) - 1 <= y
         /\ SubSeq(h, i, i + Len(m) - 1) = m
         /\ IsLineBreaks(SubSeq(h, x + 1, i - 1))
         /\ IsLineBreaks(SubSeq(h, i + Len(m), y))

\* C1: Enable followed by Disable is reversible: the content Disable writes
\* is exactly the content workbench.html had before Enable.
C1_EnableThenDisableRestores ==
  [][ ( /\ last.op = "enable" /\ last.wrote
        /\ last'.op = "disable" /\ last'.wrote )
      => html' = last.pre ]_vars

\* C2: with a font F configured and no Sh1ffy block in workbench.html,
\* Enable writes a workbench.html with exactly one block, the markup built
\* for F, inserted right before the first </head> (at the end without a
\* </head>), and otherwise the original content in its original order.
C2_EnableInjectsOneBlock ==
  ( /\ last.op = "enable"
    /\ last.preFont # Undefined
    /\ ~HasStyle(last.pre)
    /\ htmlAccess = "rw" )
  => /\ last.wrote
     /\ Count(html, STYLE_TAG_OPEN) = 1
     /\ InsertedAt(html, last.pre, getStyleMarkup(last.preFont),
                   IF Includes(last.pre, HEAD_CLOSE)
                   THEN IndexOf(last.pre, HEAD_CLOSE) - 1
                   ELSE Len(last.pre))

C2_Witness ==
  /\ last.op = "enable"
  /\ last.wrote
  /\ last.preFont = <<"f", DQ>>
  /\ Count(last.pre, HEAD_CLOSE) = 2

\* C3: Disable on a workbench.html with the Sh1ffy block writes a content
\* without any Sh1ffy block; without a block it writes nothing.
C3_DisableRemovesBlock ==
  last.op = "disable"
  => /\ (Count(last.pre, STYLE_TAG_OPEN) > 0 /\ htmlAccess = "rw")
          => (last.wrote /\ Count(html, STYLE_TAG_OPEN) = 0)
     /\ Count(last.pre, STYLE_TAG_OPEN) = 0
          => (~last.wrote /\ html = last.pre)

C3_Witness ==
  /\ last.op = "disable"
  /\ last.wrote
  /\ Count(last.pre, STYLE_TAG_OPEN) = 1
  /\ Includes(html, STYLE_TAG_CLOSE)

\* C4: with a font configured, Reload leaves exactly one Sh1ffy block, built
\* for the current sh1ffy.workbenchFont, whatever block was there before;
\* with no font configured it leaves workbench.html unchanged.
C4_ReloadRebuildsBlock ==
  last.op = "reload"
  => IF getWorkbenchFont # Undefined
     THEN htmlAccess = "rw"
          => /\ last.wrote
             /\ Count(html, STYLE_TAG_OPEN) = 1
             /\ FirstBlockIs(html, getStyleMarkup(getWorkbenchFont))
     ELSE ~last.wrote /\ html = last.pre

C4_Witness ==
  /\ last.op = "reload"
  /\ last.wrote
  /\ HasStyle(last.pre)
  /\ \E f \in Fonts :
       /\ f # getWorkbenchFont
       /\ FirstBlockIs(last.pre, getStyleMarkup(f))

\* C5: a confirmed Reset leaves sh1ffy.workbenchFont unset and workbench.html
\* without a Sh1ffy block; a dismissed one changes neither.
C5_ResetClears ==
  /\ last.op = "reset"
       => /\ getWorkbenchFont = Undefined
          /\ htmlAccess = "rw" => ~HasStyle(html)
  /\ last.op = "resetDismissed"
       => /\ getWorkbenchFont = last.preFont
          /\ html = last.pre

C5_Witness ==
  /\ last.op = "reset"
  /\ last.wrote
  /\ last.preFont # Undefined
  /\ HasStyle(last.pre)

(* ----------------------------------------------------------------------- *)
(*                       Both managers: frame properties                   *)
(* ----------------------------------------------------------------------- *)

\* C6: no handler writes editor.fontFamily: the setting keeps the value it
\* had at activation, and the only keys ever passed to update() are
\* sh1ffy.workbenchFont and workbench.colorTheme.
C6_OnlyOwnKeysUpdated ==
  /\ config[EDITOR_FONT_KEY] = <<"Consolas">>
  /\ updatedKeys \subseteq { WORKBENCH_FONT_KEY, COLOR_THEME_KEY }

C6_Witness ==
  /\ updatedKeys = { WORKBENCH_FONT_KEY, COLOR_THEME_KEY }
  /\ config[WORKBENCH_FONT_KEY] = <<"f">>
  /\ config[COLOR_THEME_KEY] = THEME_LABEL_PREFIX \o <<"X">>

\* C7 as stated: no handler creates, modifies or deletes a file other than
\* workbench.html and package.json.
C7_OnlyTwoFiles == written \subseteq { WORKBENCH_HTML, PACKAGE_JSON }

InThemesDir(path) == Len(path) > 1 /\ path[1] = THEMES_DIR_RELATIVE

\* C7: the files a handler creates, modifies or deletes are workbench.html,
\* package.json, its backup package.json.sh1ffy.bak, the folder themes/ and
\* the files inside themes/.
C7_OnlyOwnFiles ==
  \A path \in written :
    \/ path \in { WORKBENCH_HTML, PACKAGE_JSON, PACKAGE_JSON_BACKUP,
                  <<THEMES_DIR_RELATIVE>> }
    \/ InThemesDir(path)

C7_Witness ==
  /\ last.op = "enable"
  /\ last.wrote
  /\ lastTheme.op = "import"
  /\ written = { <<THEMES_DIR_RELATIVE>>, ThemePath(<<"a", ".json">>),
                 PACKAGE_JSON, PACKAGE_JSON_BACKUP }

(* ----------------------------------------------------------------------- *)
(*                        Theme manager: properties                        *)
(* ----------------------------------------------------------------------- *)

\* The positions of the managed entries of pkg that point at a path.
ManagedEntriesFor(pkg, path) ==
  { j \in 1..Len(pkg.entries) :
      /\ pkg.entries[j].json = "object"
      /\ pkg.entries[j].tag = SH1FFY_THEME_TAG
      /\ pkg.entries[j].path = <<".">> \o path }

\* C8: after an Import that ran to its end, every theme it counted as
\* imported has a managed entry in contributes.themes whose path is the
\* file the import wrote into themes/.
C8_ImportedThemesHaveEntries ==
  (lastTheme.op = "import" /\ ~lastTheme.threw)
  => \A i \in 1..Len(lastTheme.imported) :
       ManagedEntriesFor(packageJson, lastTheme.imported[i].path) # {}

\* The last handler ended with a sync that rewrote package.json.
SyncedLast ==
  \/ lastTheme.op = "import" /\ ~lastTheme.threw
  \/ lastTheme.op \in { "remove", "repair" } /\ lastTheme.shown = "reload"

\* The files of themes/ named *.json that hold a JSON object.
ReadableJsonFiles ==
  { n \in ThemeFileNames : EndsWithJson(n) /\ themes[n].kind = "object" }

\* C9: after Repair, and after the sync that ends Import and Remove, the
\* managed entries of contributes.themes are exactly one per readable .json
\* file in themes/: each such file has one entry, and every managed entry
\* points at such a file.
C9_ManagedEntriesMatchDisk ==
  SyncedLast
  => /\ \A n \in ReadableJsonFiles :
          Cardinality(ManagedEntriesFor(packageJson, ThemePath(n))) = 1
     /\ \A j \in 1..Len(packageJson.entries) :
          IsManaged(packageJson.entries[j])
            => \E n \in ReadableJsonFiles :
                 packageJson.entries[j].path = <<".">> \o ThemePath(n)

\* An element of contributes.themes without the Sh1ffy tag (a JSON null
\* included), and one that is an object without it.
Untagged(entry) == ~(entry.json = "object" /\ entry.tag = SH1FFY_THEME_TAG)

UntaggedObject(entry) == entry.json = "object" /\ entry.tag # SH1FFY_THEME_TAG

\* A step of Import, Remove or Repair.
RegeneratingStep == lastTheme'.op \in { "import", "remove", "repair" }

C11_BackupMadeOnce ==
  [][ /\ (PACKAGE_JSON \in written' /\ backup.kind = "absent")
           => backup' = packageJson
      /\ backup.kind # "absent" => backup' = backup ]_vars

C11_Witness ==
  /\ backup \in InitialPackages
  /\ packageJson.fmt = "stringify2"
  /\ lastTheme.op = "remove"
  /\ lastTheme.shown = "reload"
  /\ PACKAGE_JSON \in written
  /\ PACKAGE_JSON_BACKUP \notin written

\* C12: a confirmed Restore makes package.json equal to the backup, which
\* is the package.json the extension was installed with, whatever Import,
\* Remove and Repair did in between; without a backup, or dismissed, it
\* leaves package.json as it is.
C12_RestoreGivesOriginal ==
  [][ /\ (lastTheme'.op = "restore" /\ lastTheme'.shown = "reload")
           => /\ packageJson' = backup
              /\ backup \in InitialPackages
      /\ ( \/ lastTheme'.op = "restoreDismissed"
           \/ lastTheme'.op = "restore" /\ lastTheme'.shown = "warning" )
           => packageJson' = packageJson ]_vars

C12_Witness ==
  /\ lastTheme.op = "restore"
  /\ lastTheme.shown = "reload"
  /\ packageJson = backup
  /\ packageJson.fmt = "original"
  /\ themes[<<"a", ".json">>].kind = "object"
  /\ themes[<<"b", ".json">>].kind = "object"

\* C13: a confirmed Remove (the extension folder writable) deletes the files
\* of the selected themes and no other file, writes nothing but these and
\* package.json (with its backup), and leaves no managed entry for a removed
\* theme; a Remove dismissed at the selection or at the confirmation deletes
\* nothing and does not write package.json.
C13_RemoveDeletesSelected ==
  [][ /\ ( /\ lastTheme'.op = "remove"
           /\ lastTheme'.picked # {}
           /\ extAccess = "rw" )
           => /\ \A n \in ThemeFileNames :
                   themes'[n] = IF ThemePath(n) \in lastTheme'.picked
                                THEN NoFile ELSE themes[n]
              /\ \A path \in written' :
                   \/ path \in { PACKAGE_JSON, PACKAGE_JSON_BACKUP }
                   \/ path \in lastTheme'.picked /\ InThemesDir(path)
              /\ \A path \in lastTheme'.picked :
                   ManagedEntriesFor(packageJson', path) = {}
      /\ lastTheme'.op = "removeDismissed"
           => /\ themes' = themes
              /\ packageJson' = packageJson
              /\ written' = {} ]_vars

C13_Witness ==
  /\ lastTheme.op = "remove"
  /\ lastTheme.picked = { ThemePath(<<"a", ".json">>) }
  /\ lastTheme.shown = "reload"
  /\ themes[<<"a", ".json">>] = NoFile
  /\ themes[<<"b", ".json">>].kind = "object"
  /\ ManagedEntriesFor(packageJson, ThemePath(<<"b", ".json">>)) # {}

\* themes/ as it is when the k first selected files of an Import have been
\* processed: dir with the files written for the imported ones among them.
RECURSIVE DirAfter(_, _, _)
DirAfter(dir, inputs, k) ==
  IF k = 0 THEN dir
  ELSE LET before == DirAfter(dir, inputs, k - 1)
           source == inputs[k].source
       IN IF inputs[k].outcome = "imported"
          THEN [ before EXCEPT ![TargetFileName(source)] =
                   normalizeThemeObject(SourceFiles[source], source) ]
          ELSE before

\* A theme with this label is among the themes listed from dir.
LabelListed(dir, label) ==
  AlreadyExisting(readImportedThemesFromDisk(TRUE, dir), label)

\* C14: during an Import, for every selected file that holds a JSON object,
\* if a theme with the file's label is in themes/ when the file is
\* processed, the Overwrite/Skip question is asked; a file answered with
\* anything but Overwrite is not written and not counted.
C14_AskedWheneverLabelExists ==
  [][ lastTheme'.op = "import"
      => /\ \A i \in 1..Len(lastTheme'.inputs) :
              ( /\ SourceFiles[lastTheme'.inputs[i].source].kind = "object"
                /\ LabelListed(DirAfter(themes, lastTheme'.inputs, i - 1),
                               LabelOf(lastTheme'.inputs[i].source)) )
              => lastTheme'.inputs[i].asked
         /\ (lastTheme'.inputs # <<>>)
              => themes' = DirAfter(themes, lastTheme'.inputs,
                                    Len(lastTheme'.inputs))
         /\ Len(lastTheme'.imported)
              = Cardinality({ i \in 1..Len(lastTheme'.inputs) :
                                lastTheme'.inputs[i].outcome = "imported" }) ]_vars


\* The files of dir that the scan lists as a theme with this label.
FilesLabelled(dir, label) ==
  LET listed == readImportedThemesFromDisk(TRUE, dir)
  IN { listed[i].path : i \in { j \in 1..Len(listed) : listed[j].label = label } }

\* The managed entries of contributes.themes with this label.
EntriesLabelled(pkg, label) ==
  { k \in 1..Len(pkg.entries) :
      IsManaged(pkg.entries[k]) /\ pkg.entries[k].label = label }

\* C15: after an Import in which the user answered Overwrite for a file (and
\* the file was written and package.json synchronised), exactly one theme
\* file of themes/ and exactly one managed entry of contributes.themes carry
\* that file's label.
C15_OverwriteLeavesOne ==
  [][ (lastTheme'.op = "import" /\ ~lastTheme'.threw)
      => \A i \in 1..Len(lastTheme'.inputs) :
           (lastTheme'.inputs[i].asked /\ lastTheme'.inputs[i].outcome = "imported")
           => /\ Cardinality(FilesLabelled(themes',
                               LabelOf(lastTheme'.inputs[i].source))) = 1
              /\ Cardinality(EntriesLabelled(packageJson',
                               LabelOf(lastTheme'.inputs[i].source))) = 1 ]_vars


\* The name Import is to give the theme read from a selected file: the
\* file's own name when it is a non-blank string, else the basename of the
\* file, with the prefix put in front unless the name starts with it.
ExpectedName(source) ==
  LET own == SourceFiles[source].name
      blank == own.is # "string" \/ \A k \in 1..Len(own.s) : own.s[k] = " "
      base == IF blank THEN <<source[1]>> ELSE own.s
  IN IF Len(base) >= 2 /\ <<base[1], base[2]>> = <<"sh1ffy", BULLET>>
     THEN base
     ELSE <<"sh1ffy", BULLET>> \o base

\* The last selected file of an Import that was written to the file target.
LastWriter(inputs, target) ==
  LET writers == { i \in 1..Len(inputs) :
                     /\ inputs[i].outcome = "imported"
                     /\ TargetFileName(inputs[i].source) = target }
  IN CHOOSE i \in writers : \A j \in writers : j <= i

\* C16: every theme file an Import writes into themes/ has a string name
\* that starts with the prefix: the name of the source file's theme, or the
\* source file's basename when that name is missing, not a string or blank,
\* prefixed unless it starts with the prefix already; normalizing the
\* written theme again leaves its name as it is.
C16_WrittenNamesPrefixed ==
  [][ lastTheme'.op = "import"
      => \A n \in ThemeFileNames :
           ThemePath(n) \in written'
           => /\ themes'[n].kind = "object"
              /\ themes'[n].name.is = "string"
              /\ StartsWith(themes'[n].name.s, THEME_LABEL_PREFIX)
              /\ themes'[n].name.s =
                   ExpectedName(lastTheme'.inputs[
                                  LastWriter(lastTheme'.inputs, n)].source)
              /\ normalizeThemeObject(themes'[n], n).name = themes'[n].name ]_vars

\* An Import has written a theme with a blank name under its basename and a
\* theme whose name had the prefix already.
C16_Witness ==
  /\ lastTheme.op = "import"
  /\ { lastTheme.inputs[i].source : i \in 1..Len(lastTheme.inputs) }
       = { <<"a", ".jsonc">>, <<"b", ".json">> }
  /\ { ThemePath(<<"a", ".json">>), ThemePath(<<"b", ".json">>) } \subseteq written
  /\ themes[<<"a", ".json">>].name = Str(THEME_LABEL_PREFIX \o <<"a">>)
  /\ themes[<<"b", ".json">>].name = Str(THEME_LABEL_PREFIX \o <<"X">>)
  /\ SourceFiles[<<"b", ".json">>].name = themes[<<"b", ".json">>].name


\* C17: every file an Import writes into themes/ is a .json file: a
\* selected file with the extension .json is written under its own name, a
\* selected .jsonc file as <basename>.json, and nothing else is written
\* into themes/.
C17_StoredAsJson ==
  [][ lastTheme'.op = "import"
      => /\ \A n \in ThemeFileNames :
              ThemePath(n) \in written' => n[2] = ".json"
         /\ \A i \in 1..Len(lastTheme'.inputs) :
              LET source == lastTheme'.inputs[i].source
              IN lastTheme'.inputs[i].outcome = "imported"
                 => /\ source[2] = ".json" => ThemePath(source) \in written'
                    /\ source[2] = ".jsonc"
                         => ThemePath(<<source[1], ".json">>) \in written'
         /\ { p \in written' : InThemesDir(p) }
              \subseteq { ThemePath(n) : n \in ThemeFileNames } ]_vars


\* The read of workbench.html fails; the write a handler attempts fails.
HtmlReadFails == htmlAccess = "none"

HtmlWriteFails == htmlAccess # "rw"

\* C18: when the read or the write of workbench.html that a run of Enable,
\* Disable, Reload or Reset attempts fails, the run shows an error
\* notification and workbench.html keeps its content.
C18_HtmlFailureReported ==
  [][ /\ ( /\ Enable
           /\ getWorkbenchFont # Undefined
           /\ HtmlReadFails \/ (~HasStyle(html) /\ HtmlWriteFails) )
         => (last'.shown = "error" /\ html' = html)
      /\ ( /\ Disable
           /\ HtmlReadFails \/ (HasStyle(html) /\ HtmlWriteFails) )
         => (last'.shown = "error" /\ html' = html)
      /\ ( /\ Reload
           /\ getWorkbenchFont # Undefined
           /\ HtmlReadFails \/ HtmlWriteFails )
         => (last'.shown = "error" /\ html' = html)
      /\ ( /\ ResetAnswer
           /\ last'.op = "reset"
           /\ HtmlReadFails \/ (HasStyle(html) /\ HtmlWriteFails) )
         => (last'.shown = "error" /\ html' = html) ]_vars


\* package.json cannot be read, or cannot be written.
PackageFails == ~PackageReadable(packageJson) \/ extAccess # "rw"

\* C19: when package.json cannot be read or written, a run of Import, of
\* Remove (themes selected and confirmed), of Repair and of Restore (backup
\* present and confirmed) ends with an error notification.
C19_PackageFailureReported ==
  [][ PackageFails
      => /\ lastTheme'.op \in { "import", "repair" } => lastTheme'.shown = "error"
         /\ (lastTheme'.op = "remove" /\ lastTheme'.picked # {})
              => lastTheme'.shown = "error"
         /\ (lastTheme'.op = "restore" /\ backup.kind # "absent")
              => lastTheme'.shown = "error" ]_vars


(* ----------------------------------------------------------------------- *)
(*                      stripJsonComments: properties                      *)
(* ----------------------------------------------------------------------- *)

First(S) == CHOOSE k \in S : \A j \in S : k <= j

\* The quote at s[k] is escaped: an odd number of backslashes runs up to it.
Escaped(s, k) ==
  \E n \in 1..(k - 1) :
    /\ n % 2 = 1
    /\ \A j \in (k - n)..(k - 1) : s[j] = BACKSLASH
    /\ k - n - 1 >= 1 => s[k - n - 1] # BACKSLASH

\* s without its comments, s starting outside a string literal and outside
\* a comment: a line comment runs up to the next line terminator, a block
\* comment through the next "*/" after its "/*", a string literal through
\* the next unescaped quote of its kind; a comment or string literal that
\* is not closed runs to the end of s.
RECURSIVE WithoutComments(_)
WithoutComments(s) ==
  IF s = <<>> THEN <<>>
  ELSE IF Len(s) >= 2 /\ s[1] = "/" /\ s[2] = "/"
  THEN LET ends == { k \in 3..Len(s) : s[k] \in { NL, CR } }
       IN IF ends = {} THEN <<>>
          ELSE WithoutComments(SubSeq(s, First(ends), Len(s)))
  ELSE IF Len(s) >= 2 /\ s[1] = "/" /\ s[2] = "*"
  THEN LET ends == { k \in 3..(Len(s) - 1) : s[k] = "*" /\ s[k + 1] = "/" }
       IN IF ends = {} THEN <<>>
          ELSE WithoutComments(SubSeq(s, First(ends) + 2, Len(s)))
  ELSE IF s[1] \in { DQ, SQ }
  THEN LET ends == { k \in 2..Len(s) : s[k] = s[1] /\ ~Escaped(s, k) }
       IN IF ends = {} THEN s
          ELSE SubSeq(s, 1, First(ends))
                 \o WithoutComments(SubSeq(s, First(ends) + 1, Len(s)))
  ELSE <<s[1]>> \o WithoutComments(Tail(s))

\* C20: stripJsonComments returns its input without the line comments (the
\* line terminator stays) and the block comments that start outside a
\* string literal, every other character unchanged and in order: also the
\* "//" and "/*" inside a string literal, and what follows an escaped quote
\* inside a string literal.
C20_CommentsStripped ==
  stripOut.called => stripOut.output = WithoutComments(jsonc)

\* A string literal with an escaped quote followed by "//" was passed and
\* returned whole.
C20_Witness ==
  /\ stripOut.called
  /\ jsonc = <<DQ, BACKSLASH, DQ, "/", "/">>
  /\ stripOut.output = jsonc


\* The selected files of an Import that failed, in the order of the
\* selection.
FailedSources(inputs) ==
  LET failed == SelectSeq(inputs, LAMBDA input : input.outcome = "error")
  IN [ k \in 1..Len(failed) |-> failed[k].source ]

\* C21: in an Import of several files that reaches its loop, a file fails
\* exactly when it does not hold a JSON object or cannot be written; the
\* failed files are the recorded errors, every other file that was not
\* skipped by the user is written into themes/, package.json is synchronised
\* with themes/ after the loop when it can be written, and with a failed
\* file the run ends with the warning that lists the failed files.
C21_FailuresSkippedAndReported ==
  [][ (lastTheme'.op = "import" /\ Len(lastTheme'.inputs) >= 2)
      => /\ \A i \in 1..Len(lastTheme'.inputs) :
              LET input == lastTheme'.inputs[i]
              IN /\ input.outcome = "error"
                      <=> \/ SourceFiles[input.source].kind # "object"
                          \/ (input.outcome # "skipped" /\ extAccess # "rw")
                 /\ input.outcome = "imported"
                      => ThemePath(TargetFileName(input.source)) \in written'
         /\ lastTheme'.errors = FailedSources(lastTheme'.inputs)
         /\ extAccess = "rw"
              => packageJson' = SyncedPackage(packageJson,
                                   readImportedThemesFromDisk(TRUE, themes'))
         /\ lastTheme'.errors # <<>> => lastTheme'.shown = "warning" ]_vars


\* C22: starting from a workbench.html without a Sh1ffy block, whatever
\* handlers of Set, Enable, Disable, Reload and Reset run, and however they
\* interleave at their dialogs, workbench.html never holds more than one
\* Sh1ffy block.
C22_AtMostOneBlock == Count(html, STYLE_TAG_OPEN) <= 1

\* A Set handler waits at its "Enable and reload" message, having seen no
\* block, while an Enable that ran in between has written the block.
C22_Witness ==
  /\ pending["set_msg_nostyle"] > 0
  /\ last.op = "enable"
  /\ last.wrote
  /\ Count(html, STYLE_TAG_OPEN) = 1


\* C23: no two Sh1ffy-managed entries of contributes.themes have the same
\* id, and the id of a managed entry is "sh1ffy." followed by toSafeId of
\* its label.
C23_ManagedIdsDistinct ==
  packageJson.kind = "json"
  => \A i, j \in 1..Len(packageJson.entries) :
       (IsManaged(packageJson.entries[i]) /\ IsManaged(packageJson.entries[j]))
       => /\ packageJson.entries[i].id
               = <<"sh1ffy.">> \o toSafeId(packageJson.entries[i].label)
          /\ i # j => packageJson.entries[i].id # packageJson.entries[j].id


\* C24: a Repair that follows a successful Repair, with nothing done to
\* themes/ in between, leaves package.json and its backup as the first
\* Repair left them.
C24_RepairIdempotent ==
  [][ ( /\ lastTheme.op = "repair"
        /\ lastTheme.shown = "reload"
        /\ lastTheme'.op = "repair"
        /\ themes' = themes )
      => /\ lastTheme'.shown = "reload"
         /\ packageJson' = packageJson
         /\ backup' = backup ]_vars

\* A Repair has succeeded with a theme in themes/: package.json holds the
\* theme's managed entry and no stale one, the backup holds the original,
\* and a sync of this package.json gives the same package.json.
C24_Witness ==
  /\ lastTheme.op = "repair"
  /\ lastTheme.shown = "reload"
  /\ backup \in InitialPackages
  /\ ManagedEntriesFor(packageJson, ThemePath(<<"a", ".json">>)) # {}
  /\ \A k \in 1..Len(packageJson.entries) : packageJson.entries[k] # StaleEntry
  /\ packageJson = SyncedPackage(packageJson,
                                 readImportedThemesFromDisk(themesDirExists, themes))

====
